---- MODULE Spec2Model ----
(***************************************************************************)
(* Multi-pattern search executor of fast-pfurious-search                   *)
(* (FastPfuriousExecutor, src/src/core/settingsManager.ts lines 287-795).  *)
(*                                                                         *)
(* JavaScript runs every continuation to completion, so one action is one  *)
(* macrotask: the call of executeSearch up to its first pending await of   *)
(* Promise.allSettled, the return of one remote sendCommand together with  *)
(* every continuation it unblocks, or one call of a cancel method.         *)
(*                                                                         *)
(* The progress callback is the one FastPfuriousResultsManager.executeSearch *)
(* passes (src/unnamed/part_005 lines 56-65); the requests of a user come   *)
(* through the search form (src/src/ui/searchModal.ts).  Texts are strings; *)
(* Len, SubSeq and \o read and build them character by character.          *)
(*                                                                         *)
(* Left out: the connection lookup (a connection is available), the        *)
(* notifications of showAggregatedErrors and the dispose() of the token    *)
(* sources, which changes no value read here (isCancellationRequested      *)
(* keeps its value after dispose).                                         *)
(***************************************************************************)
EXTENDS Integers, Sequences, FiniteSets, TLC

\* longest list of raw comma-separated pieces a request carries
MaxPatterns == 3
\* largest value of the maxParallelSearches setting
MaxParallelBound == 2
\* longest list of pieces of a request when two searches run side by side
MaxConcurrentPatterns == 2
\* longest text typed into the search location field, examples apart
MaxTextLen == 5

\* search ids (generateSearchId gives every executeSearch call its own id)
SearchIds == {"s1", "s2"}

\* ------------------------------------------------------------------------
\* Texts (JavaScript strings) and the String methods the code calls.

\* the character at position k (1-based) of a text
Char(text, k) == SubSeq(text, k, k)

\* String.prototype.includes
Includes(text, needle) ==
    \E k \in 1..(Len(text) - Len(needle) + 1) :
        SubSeq(text, k, k + Len(needle) - 1) = needle

\* String.prototype.endsWith
EndsWith(text, suffix) ==
    /\ Len(suffix) <= Len(text)
    /\ SubSeq(text, Len(text) - Len(suffix) + 1, Len(text)) = suffix

\* the white space String.prototype.trim removes (of the characters used here)
IsSpace(c) == c = " "

\* String.prototype.trim
RECURSIVE Trim(_)
Trim(text) ==
    IF text = "" THEN ""
    ELSE IF IsSpace(Char(text, 1)) THEN Trim(SubSeq(text, 2, Len(text)))
    ELSE IF IsSpace(Char(text, Len(text))) THEN Trim(SubSeq(text, 1, Len(text) - 1))
    ELSE text

LowerCaseLetters == "abcdefghijklmnopqrstuvwxyz"
UpperCaseLetters == "ABCDEFGHIJKLMNOPQRSTUVWXYZ"

UpperCaseChar(c) ==
    IF \E k \in 1..Len(LowerCaseLetters) : Char(LowerCaseLetters, k) = c
    THEN Char(UpperCaseLetters, CHOOSE k \in 1..Len(LowerCaseLetters) :
                                    Char(LowerCaseLetters, k) = c)
    ELSE c

\* String.prototype.toUpperCase
RECURSIVE ToUpperCase(_)
ToUpperCase(text) ==
    IF text = "" THEN ""
    ELSE UpperCaseChar(Char(text, 1)) \o ToUpperCase(SubSeq(text, 2, Len(text)))

\* String.prototype.split(sep) for a separator of one character, the piece in
\* progress being `piece`: "" gives [""], "a," gives ["a", ""]
RECURSIVE SplitFrom(_, _, _)
SplitFrom(text, sep, piece) ==
    IF text = "" THEN << piece >>
    ELSE IF Char(text, 1) = sep
    THEN << piece >> \o SplitFrom(SubSeq(text, 2, Len(text)), sep, "")
    ELSE SplitFrom(SubSeq(text, 2, Len(text)), sep, piece \o Char(text, 1))

Split(text, sep) == SplitFrom(text, sep, "")

\* Array.prototype.map(p => p.trim())
TrimAll(pieces) == [k \in 1..Len(pieces) |-> Trim(pieces[k])]

\* Array.prototype.filter(p => p.length > 0)
RECURSIVE NonEmpty(_)
NonEmpty(pieces) ==
    IF pieces = <<>> THEN <<>>
    ELSE (IF Len(Head(pieces)) > 0 THEN << Head(pieces) >> ELSE <<>>)
         \o NonEmpty(Tail(pieces))

Digits == "0123456789"

IsDigit(c) == \E k \in 1..Len(Digits) : Char(Digits, k) = c

DigitValue(c) == (CHOOSE k \in 1..Len(Digits) : Char(Digits, k) = c) - 1

\* the longest prefix of a text that is made of digits
RECURSIVE LeadingDigits(_)
LeadingDigits(text) ==
    IF text = "" \/ ~IsDigit(Char(text, 1)) THEN ""
    ELSE Char(text, 1) \o LeadingDigits(SubSeq(text, 2, Len(text)))

RECURSIVE DecimalValue(_)
DecimalValue(digits) ==
    IF digits = "" THEN 0
    ELSE DecimalValue(SubSeq(digits, 1, Len(digits) - 1)) * 10
         + DigitValue(Char(digits, Len(digits)))

\* parseInt(text): an optional sign and the leading digits; NaN when there is no digit
parseInt(text) ==
    LET negative == text # "" /\ Char(text, 1) = "-"
        digits == LeadingDigits(IF negative THEN SubSeq(text, 2, Len(text)) ELSE text)
    IN  [isNaN |-> digits = "",
         n |-> IF negative THEN 0 - DecimalValue(digits) ELSE DecimalValue(digits)]

\* Array.prototype.join
RECURSIVE Join(_, _)
Join(pieces, sep) ==
    IF Len(pieces) = 0 THEN ""
    ELSE IF Len(pieces) = 1 THEN pieces[1]
    ELSE pieces[1] \o sep \o Join(Tail(pieces), sep)

\* the decimal text of a natural number, as a template literal prints it
RECURSIVE NumText(_)
NumText(n) ==
    IF n < 10 THEN Char("0123456789", n + 1)
    ELSE NumText(n \div 10) \o Char("0123456789", (n % 10) + 1)

\* ------------------------------------------------------------------------
\* The remote system: what PFGREP answers for each location pattern.

PathA == "/QSYS.LIB/LIBA.LIB/QRPGLESRC.FILE/PGM1.MBR"
PathB == "/QSYS.LIB/LIBB.LIB/QRPGLESRC.FILE/PGM2.MBR"

\* the resource paths of the remote system, in ascending ordinal order
Paths == <<PathA, PathB>>

PatternNames == {"LIBA", "LIBB", "LIB*", "NOAUTH", "EMPTY"}

\* a raw pattern string that is blank after trimming
Blank == " "

MatchLine(p, n, c) == [kind |-> "match", path |-> p, number |-> n, content |-> c]
ContextLine(p, n, c) == [kind |-> "context", path |-> p, number |-> n, content |-> c]
SeparatorLine == [kind |-> "sep", path |-> "", number |-> 0, content |-> "--"]

\* the text of one line of the output of the tool
LineText(line) ==
    CASE line.kind = "match" ->
           line.path \o ":" \o NumText(line.number) \o ":" \o line.content
      [] line.kind = "context" ->
           line.path \o "-" \o NumText(line.number) \o "-" \o line.content
      [] OTHER -> line.content

\* the standard output of the tool: its lines, each followed by a line feed
RECURSIVE Render(_)
Render(lines) ==
    IF lines = <<>> THEN "" ELSE LineText(Head(lines)) \o "\n" \o Render(Tail(lines))

\* connection.sendCommand: {code, stdout, stderr} of the command built for a pattern
RemoteResult(pattern) ==
    CASE pattern = "LIBA" ->
           [code |-> 0, stderr |-> "",
            stdout |-> Render(<< MatchLine(PathA, 10, "DCL-S X;") >>)]
      [] pattern = "LIBB" ->
           [code |-> 0, stderr |-> "",
            stdout |-> Render(<< MatchLine(PathB, 7, "DCL-S X;") >>)]
      [] pattern = "LIB*" ->
           [code |-> 0, stderr |-> "",
            stdout |-> Render(<< MatchLine(PathA, 10, "DCL-S X;"),
                                 ContextLine(PathA, 11, "X = 1;"),
                                 SeparatorLine,
                                 MatchLine(PathB, 7, "DCL-S X;") >>)]
      [] pattern = "NOAUTH" ->
           [code |-> 2, stderr |-> "pfgrep: Permission denied", stdout |-> ""]
      [] OTHER ->
           [code |-> 1, stderr |-> "", stdout |-> ""]

VARIABLES
    pc,               \* per search: "idle", "await" (Promise.allSettled pending), "done", "failed"
    patterns,         \* per search: the split patterns
    maxParallelSearches, \* the setting getMaxParallelSearches() reads (set outside this code)
    maxParallel,      \* per search: the local maxParallel, read from the setting at line 358
    i,                \* per search: the loop index of the batch loop (0-based, as in the code)
    tasks,            \* per search: the promise of each pattern's executePatternSearch
    allHits,          \* per search: the local allHits
    errors,           \* per search: the local errors
    completedCount,   \* per search: the local completedCount
    results,          \* per search: the hits of the returned SearchResults
    activeSearches,   \* the static registry: search id -> PatternSearch[]
    cancelledTokens,  \* the CancellationTokenSources whose cancel() has run
    dispatched,       \* history: per search, the batches issued so far (pattern indices)
    observedCancel,   \* history: the executions that found their token cancelled
    settleOrder,      \* history: per search, the patterns of the current batch in the
                      \* order in which their promises settled
    progress,         \* per search: the calls of progressCallback, in order
    call,             \* history: the request or function call under examination
    activeResultsId   \* FastPfuriousResultsManager.activeResultsId

vars == << pc, patterns, maxParallelSearches, maxParallel, i, tasks, allHits, errors, completedCount,
           results, activeSearches, cancelledTokens, dispatched, observedCancel, settleOrder,
           progress, call, activeResultsId >>

Min(a, b) == IF a < b THEN a ELSE b

\* activeResultsId before a search has finished and after clearAllResults
undefined == "undefined"

\* what FastPfuriousResultsManager.executeSearch does to activeResultsId before it
\* calls the executor: src/unnamed/part_005 starts with clearAllResults() (`clears`),
\* src/src/ui/resultsManager.ts leaves it alone
AtSearchStart(clears) == IF clears THEN undefined ELSE activeResultsId

\* no request or function call is under examination
NoCall == [op |-> "none"]

\* the CancellationTokenSource created for pattern k of search s
Token(s, k) == << s, k >>

NotStarted == [status |-> "notStarted", value |-> <<>>, reason |-> <<>>]
Pending == [status |-> "pending", value |-> <<>>, reason |-> <<>>]

Settled(t) == t.status \in {"fulfilled", "rejected"}

\* ------------------------------------------------------------------------
\* Pure functions of the executor.

\* splitPatterns with the trim left out: lib.split(',').filter(p => p.length > 0)
RECURSIVE splitPatternsUntrimmed(_)
splitPatternsUntrimmed(libraries) ==
    IF libraries = <<>> THEN <<>>
    ELSE NonEmpty(Split(Head(libraries), ",")) \o splitPatternsUntrimmed(Tail(libraries))

\* splitPatterns: for each raw string, lib.split(',').map(p => p.trim())
\* .filter(p => p.length > 0), pushed in order
RECURSIVE splitPatterns(_)
splitPatterns(libraries) ==
    IF libraries = <<>> THEN <<>>
    ELSE NonEmpty(TrimAll(Split(Head(libraries), ","))) \o splitPatterns(Tail(libraries))

\* Map.get of parsePFGREPOutputToHits: the position of the hit of a path, 0 if none
HitIndex(hits, path) ==
    IF \E h \in 1..Len(hits) : hits[h].path = path
    THEN CHOOSE h \in 1..Len(hits) : hits[h].path = path
    ELSE 0

\* the positions of the line feeds of a text, and the position after its end
LineEnds(text) == { k \in 1..Len(text) : Char(text, k) = "\n" } \cup { Len(text) + 1 }

\* output.split('\n')
SplitLines(text) ==
    LET ends == LineEnds(text)
        end(j) == IF j = 0 THEN 0
                  ELSE CHOOSE e \in ends : Cardinality({ d \in ends : d < e }) = j - 1
    IN  [j \in 1..Cardinality(ends) |-> SubSeq(text, end(j - 1) + 1, end(j) - 1)]

\* the position after the digits that start at position a of a line (a itself when
\* there is no digit there)
DigitsEnd(line, a) ==
    CHOOSE b \in a..(Len(line) + 1) :
        /\ \A k \in a..(b - 1) : IsDigit(Char(line, k))
        /\ b <= Len(line) => ~IsDigit(Char(line, b))

NoShape == [matched |-> FALSE, path |-> "", lineNum |-> "", content |-> ""]

\* line.match(/^([^:]+):(\d+):(.*)$/): the first group ends before the first colon
MatchShape(line) ==
    LET colons == { k \in 1..Len(line) : Char(line, k) = ":" }
    IN  IF colons = {} THEN NoShape
        ELSE LET c == CHOOSE k \in colons : \A d \in colons : k <= d
                 b == DigitsEnd(line, c + 1)
             IN  IF c > 1 /\ b > c + 1 /\ b <= Len(line) /\ Char(line, b) = ":"
                 THEN [matched |-> TRUE, path |-> SubSeq(line, 1, c - 1),
                       lineNum |-> SubSeq(line, c + 1, b - 1),
                       content |-> SubSeq(line, b + 1, Len(line))]
                 ELSE NoShape

\* line.match(/^([^:]+)-(\d+)-(.*)$/): the first group is the longest text without a
\* colon that is followed by a hyphen, digits and a hyphen
ContextShape(line) ==
    LET colons == { k \in 1..Len(line) : Char(line, k) = ":" }
        ends == { e \in 1..Len(line) :
                    /\ \A k \in colons : k > e
                    /\ e + 1 <= Len(line) /\ Char(line, e + 1) = "-"
                    /\ LET b == DigitsEnd(line, e + 2)
                       IN  b > e + 2 /\ b <= Len(line) /\ Char(line, b) = "-" }
    IN  IF ends = {} THEN NoShape
        ELSE LET e == CHOOSE k \in ends : \A d \in ends : d <= k
                 b == DigitsEnd(line, e + 2)
             IN  [matched |-> TRUE, path |-> SubSeq(line, 1, e),
                  lineNum |-> SubSeq(line, e + 2, b - 1),
                  content |-> SubSeq(line, b + 1, Len(line))]

\* hit.lines.push({number: parseInt(lineNum), content: content.trim(), isContext})
HitLine(shape, isContext) ==
    [number |-> parseInt(shape.lineNum).n, content |-> Trim(shape.content),
     isContext |-> isContext]

\* one iteration of the loop of parsePFGREPOutputToHits
ParseLine(hits, line) ==
    IF line = "--" \/ Trim(line) = "--" THEN hits
    ELSE LET matchLine == MatchShape(line)
             contextLine == ContextShape(line)
         IN  IF matchLine.matched
             THEN LET h == HitIndex(hits, matchLine.path)
                  IN  IF h = 0
                      THEN Append(hits, [path |-> matchLine.path,
                                         lines |-> << HitLine(matchLine, FALSE) >>])
                      ELSE [hits EXCEPT ![h].lines = Append(@, HitLine(matchLine, FALSE))]
             ELSE IF contextLine.matched
             THEN LET h == HitIndex(hits, contextLine.path)
                  IN  IF h = 0
                      THEN Append(hits, [path |-> contextLine.path,
                                         lines |-> << HitLine(contextLine, TRUE) >>])
                      ELSE [hits EXCEPT ![h].lines = Append(@, HitLine(contextLine, TRUE))]
             ELSE hits

RECURSIVE ParseFrom(_, _)
ParseFrom(hits, lines) ==
    IF lines = <<>> THEN hits
    ELSE ParseFrom(ParseLine(hits, Head(lines)), Tail(lines))

\* Array.prototype.filter(line => line.trim())
RECURSIVE NonBlank(_)
NonBlank(lines) ==
    IF lines = <<>> THEN <<>>
    ELSE (IF Trim(Head(lines)) # "" THEN << Head(lines) >> ELSE <<>>)
         \o NonBlank(Tail(lines))

\* parsePFGREPOutputToHits: one hit per path, in first-seen order
parsePFGREPOutputToHits(output) == ParseFrom(<<>>, NonBlank(SplitLines(output)))

\* the catch block of executePFGREPCommand
CatchRethrow(message) ==
    IF Includes(message, "connection") THEN "Connection lost to IBM i system"
    ELSE IF Includes(message, "cancelled") THEN "Search cancelled by user"
    ELSE message

\* executePFGREPCommand with `result.code === 0` as the only success
executePFGREPCommandZeroOnly(result, isCancellationRequested) ==
    IF isCancellationRequested
    THEN [ok |-> FALSE, stdout |-> "", message |-> CatchRethrow("Search cancelled by user")]
    ELSE IF result.code = 0
    THEN [ok |-> TRUE, stdout |-> result.stdout, message |-> ""]
    ELSE [ok |-> FALSE, stdout |-> "",
          message |-> CatchRethrow(IF result.stderr = "" THEN "PFGREP command failed"
                                   ELSE result.stderr)]

\* executePFGREPCommand after sendCommand has returned `result`:
\* the stdout it returns, or the message of the error it throws
executePFGREPCommand(result, isCancellationRequested) ==
    IF isCancellationRequested
    THEN [ok |-> FALSE, stdout |-> "", message |-> CatchRethrow("Search cancelled by user")]
    ELSE IF result.code = 0 \/ result.code = 1
    THEN [ok |-> TRUE, stdout |-> result.stdout, message |-> ""]
    ELSE IF Includes(result.stderr, "Permission denied")
    THEN [ok |-> FALSE, stdout |-> "",
          message |-> CatchRethrow("Don't have authority to that library")]
    ELSE IF Includes(result.stderr, "No such file or directory")
    THEN [ok |-> FALSE, stdout |-> "",
          message |-> CatchRethrow("Library does not exist or is not accessible")]
    ELSE [ok |-> FALSE, stdout |-> "",
          message |-> CatchRethrow(IF result.stderr = "" THEN "PFGREP command failed"
                                   ELSE result.stderr)]

\* executePatternSearch after the remote call has returned: the settled promise.
\* The rejection reason is the message 'Pattern "<pattern>": <message>'.
executePatternSearch(pattern, result, isCancellationRequested) ==
    LET out == executePFGREPCommand(result, isCancellationRequested)
    IN  IF out.ok
        THEN [status |-> "fulfilled", value |-> parsePFGREPOutputToHits(out.stdout),
              reason |-> <<>>]
        ELSE [status |-> "rejected", value |-> <<>>, reason |-> << pattern, out.message >>]

\* the promise of every pattern the remote system knows, once its call has returned
PatternOutcomes ==
    [pattern \in PatternNames, isCancellationRequested \in BOOLEAN |->
        executePatternSearch(pattern, RemoteResult(pattern), isCancellationRequested)]

\* the promise of executePatternSearch(pattern, ...) once its remote call has returned
SettledPattern(pattern, isCancellationRequested) ==
    IF pattern \in PatternNames
    THEN PatternOutcomes[pattern, isCancellationRequested]
    ELSE executePatternSearch(pattern, RemoteResult(pattern), isCancellationRequested)

\* ------------------------------------------------------------------------
\* executeSearch

\* the local `cancelled` of executeSearch: set at line 365 and never assigned again
cancelled == FALSE

\* a slice one pattern too long: patterns.slice(idx, Math.min(idx + mp + 1, n))
BatchOversized(n, mp, idx) == [j \in 1..(Min(idx + mp + 1, n) - idx) |-> idx + j]

\* a slice that starts one pattern late: patterns.slice(idx + 1, ...)
BatchSkipsFirst(n, mp, idx) == [j \in 1..(Min(idx + mp, n) - idx - 1) |-> idx + 1 + j]

\* patterns.slice(idx, Math.min(idx + mp, n)), as the indices of the patterns
Batch(n, mp, idx) == [j \in 1..(Min(idx + mp, n) - idx) |-> idx + j]

\* Promise.race in place of Promise.allSettled: the first promise to settle resumes
AnySettled(ts, batch) == \E j \in 1..Len(batch) : Settled(ts[batch[j]])

\* Promise.allSettled over the promises of a batch
AllSettled(ts, batch) == \A j \in 1..Len(batch) : Settled(ts[batch[j]])

\* the registrations of executePatternSearch (lines 453-458) for every pattern of a batch
Register(reg, s, pats, batch) ==
    LET old == IF s \in DOMAIN reg THEN reg[s] ELSE <<>>
        new == [j \in 1..Len(batch) |->
                  [pattern |-> pats[batch[j]], cancellationToken |-> Token(s, batch[j])]]
    IN  IF Len(batch) = 0 THEN reg
        ELSE [t \in DOMAIN reg \cup {s} |-> IF t = s THEN old \o new ELSE reg[t]]

\* Map.delete
Delete(reg, s) == [t \in DOMAIN reg \ {s} |-> reg[t]]

\* the array a `hits` field points to: the one array executeSearch creates at line 364
AllHitsArray == "allHits"

\* the call progressCallback(completedCount, patterns.length, intermediateResults) of
\* lines 399-411.  `hits` is the array the snapshot points to, `delivered` its content
\* when the callback ran, `settledAtCall` the number of promises settled by then.
ProgressCall(acc, ts, pats) ==
    [completedCount |-> acc.completedCount,
     totalCount |-> Len(pats),
     hits |-> AllHitsArray,
     delivered |-> acc.allHits,
     settledAtCall |-> Cardinality({ k \in DOMAIN ts : Settled(ts[k]) })]

\* the loop over batchResults as Promise.all would leave it: the first rejection of a
\* batch is recorded and the rest of the batch is dropped
RECURSIVE ProcessResultsAbort(_, _, _, _, _)
ProcessResultsAbort(acc, ts, pats, batch, j) ==
    IF j > Len(batch) THEN acc
    ELSE LET result == ts[batch[j]]
         IN  IF result.status = "fulfilled"
             THEN ProcessResultsAbort([acc EXCEPT !.allHits = @ \o result.value,
                                                  !.completedCount = @ + 1],
                                      ts, pats, batch, j + 1)
             ELSE [acc EXCEPT !.errors = Append(@, [pattern |-> pats[batch[j]],
                                                    error |-> result.reason]),
                              !.completedCount = @ + 1]

\* the loop over batchResults with completedCount++ moved into the fulfilled branch
RECURSIVE ProcessResultsSkipsFailed(_, _, _, _, _)
ProcessResultsSkipsFailed(acc, ts, pats, batch, j) ==
    IF j > Len(batch) THEN acc
    ELSE LET result == ts[batch[j]]
             next == IF result.status = "fulfilled"
                     THEN [acc EXCEPT !.allHits = @ \o result.value,
                                      !.completedCount = @ + 1]
                     ELSE [acc EXCEPT !.errors = Append(@,
                                          [pattern |-> pats[batch[j]],
                                           error |-> IF result.reason = <<>>
                                                     THEN << "Unknown error" >>
                                                     ELSE result.reason])]
         IN  ProcessResultsSkipsFailed(
                 [next EXCEPT !.calls = IF result.status = "fulfilled"
                                        THEN Append(@, ProgressCall(next, ts, pats))
                                        ELSE @],
                 ts, pats, batch, j + 1)

\* the loop over batchResults (lines 383-412), from position j on
RECURSIVE ProcessResults(_, _, _, _, _)
ProcessResults(acc, ts, pats, batch, j) ==
    IF j > Len(batch) THEN acc
    ELSE LET result == ts[batch[j]]
             pattern == pats[batch[j]]
             next == IF result.status = "fulfilled"
                     THEN [acc EXCEPT !.allHits = @ \o result.value,
                                      !.completedCount = @ + 1]
                     ELSE [acc EXCEPT !.errors = Append(@,
                                          [pattern |-> pattern,
                                           error |-> IF result.reason = <<>>
                                                     THEN << "Unknown error" >>
                                                     ELSE result.reason]),
                                      !.completedCount = @ + 1]
         IN  ProcessResults([next EXCEPT !.calls = Append(@, ProgressCall(next, ts, pats))],
                            ts, pats, batch, j + 1)

\* the promises of a batch in the order in which they settled
CompletionOrder(batch, order) == order

\* batchResults: Promise.allSettled gives the outcomes in the order of the promises
\* it was handed, and batchResults[j] is read together with batch[j]
ResultOrder(batch, order) == batch

\* Everything executeSearch does once Promise.allSettled of the current batch has
\* resolved: fold the batch into the aggregates, advance the loop, and either send
\* the next batch or build the result and run the finally block.
\* `order` is the order in which the promises of the batch settled.
Continue(s, ts, order) ==
    LET n == Len(patterns[s])
        mp == maxParallel[s]
        acc == ProcessResults([allHits |-> allHits[s], errors |-> errors[s],
                               completedCount |-> completedCount[s],
                               calls |-> progress[s]],
                              ts, patterns[s], ResultOrder(Batch(n, mp, i[s]), order), 1)
        ni == i[s] + mp
        nextBatch == Batch(n, mp, ni)
    IN  /\ allHits' = [allHits EXCEPT ![s] = acc.allHits]
        /\ errors' = [errors EXCEPT ![s] = acc.errors]
        /\ completedCount' = [completedCount EXCEPT ![s] = acc.completedCount]
        /\ progress' = [progress EXCEPT ![s] = acc.calls]
        /\ i' = [i EXCEPT ![s] = ni]
        /\ IF ni < n /\ ~cancelled
           THEN /\ tasks' = [tasks EXCEPT ![s] =
                               [k \in 1..n |-> IF \E j \in 1..Len(nextBatch) : nextBatch[j] = k
                                               THEN Pending ELSE ts[k]]]
                /\ activeSearches' = Register(activeSearches, s, patterns[s], nextBatch)
                /\ dispatched' = [dispatched EXCEPT ![s] =
                                     IF Len(nextBatch) = 0 THEN @ ELSE Append(@, nextBatch)]
                /\ settleOrder' = [settleOrder EXCEPT ![s] = <<>>]
                /\ UNCHANGED << pc, results >>
           ELSE /\ tasks' = [tasks EXCEPT ![s] = ts]
                /\ pc' = [pc EXCEPT ![s] = "done"]
                /\ results' = [results EXCEPT ![s] = acc.allHits]
                /\ activeSearches' = Delete(activeSearches, s)
                /\ settleOrder' = [settleOrder EXCEPT ![s] = order]
                /\ UNCHANGED dispatched

\* the raw requests: options.libraries, one pattern or a blank in each raw string
RECURSIVE SeqsUpTo(_, _)
SeqsUpTo(S, n) ==
    IF n = 0 THEN { <<>> }
    ELSE LET shorter == SeqsUpTo(S, n - 1)
         IN  shorter \cup { Append(q, x) : q \in shorter, x \in S }

Requests == SeqsUpTo(PatternNames \cup {Blank}, MaxPatterns)

\* the requests of two searches that run side by side
ConcurrentRequests == SeqsUpTo({"LIBA", "NOAUTH"}, MaxConcurrentPatterns)

\* executeSearch(options, searchId) up to its first pending await: the split, the
\* registration of the search and the dispatch of the first batch.
StartSearch(s, libraries) ==
    /\ pc[s] = "idle"
    /\ LET pats == splitPatterns(libraries)
           mp == maxParallelSearches
           n == Len(pats)
           batch == Batch(n, mp, 0)
       IN  IF n = 0
           THEN /\ pc' = [pc EXCEPT ![s] = "failed"]
                /\ UNCHANGED << patterns, maxParallel, i, tasks, allHits, errors,
                                completedCount, results, activeSearches, dispatched,
                                settleOrder, progress >>
           ELSE /\ pc' = [pc EXCEPT ![s] = "await"]
                /\ patterns' = [patterns EXCEPT ![s] = pats]
                /\ maxParallel' = [maxParallel EXCEPT ![s] = mp]
                /\ i' = [i EXCEPT ![s] = 0]
                /\ tasks' = [tasks EXCEPT ![s] =
                               [k \in 1..n |-> IF \E j \in 1..Len(batch) : batch[j] = k
                                               THEN Pending ELSE NotStarted]]
                /\ activeSearches' =
                       Register([t \in DOMAIN activeSearches \cup {s} |->
                                    IF t = s THEN <<>> ELSE activeSearches[t]],
                                s, pats, batch)
                /\ dispatched' = [dispatched EXCEPT ![s] = << batch >>]
                /\ UNCHANGED << allHits, errors, completedCount, results, settleOrder,
                                progress >>
    /\ UNCHANGED << maxParallelSearches, cancelledTokens, observedCancel >>

\* The remote call of pattern k of search s returns: executePFGREPCommand and
\* executePatternSearch run on, the promise settles, and when it was the last one of
\* its batch, executeSearch runs on as well.
RemoteReturn(s, k) ==
    /\ pc[s] = "await"
    /\ k \in 1..Len(patterns[s])
    /\ tasks[s][k].status = "pending"
    /\ LET isCancellationRequested == Token(s, k) \in cancelledTokens
           settled == SettledPattern(patterns[s][k], isCancellationRequested)
           ts == [tasks[s] EXCEPT ![k] = settled]
           order == Append(settleOrder[s], k)
       IN  /\ observedCancel' = IF isCancellationRequested
                                THEN observedCancel \cup { Token(s, k) }
                                ELSE observedCancel
           /\ IF AllSettled(ts, Batch(Len(patterns[s]), maxParallel[s], i[s]))
              THEN Continue(s, ts, order)
              ELSE /\ tasks' = [tasks EXCEPT ![s] = ts]
                   /\ settleOrder' = [settleOrder EXCEPT ![s] = order]
                   /\ UNCHANGED << pc, i, allHits, errors, completedCount, results,
                                   activeSearches, dispatched, progress >>
    /\ UNCHANGED << patterns, maxParallelSearches, maxParallel, cancelledTokens, call >>

\* the tokens of a list of PatternSearch entries
TokensOf(patternSearches) ==
    { patternSearches[j].cancellationToken : j \in 1..Len(patternSearches) }

\* cancelSearch ending with activeSearches.clear() instead of delete(searchId)
cancelSearchClearsAll(s) ==
    /\ IF s \in DOMAIN activeSearches
       THEN /\ cancelledTokens' = cancelledTokens \cup TokensOf(activeSearches[s])
            /\ activeSearches' = [t \in {} |-> <<>>]
       ELSE UNCHANGED << cancelledTokens, activeSearches >>
    /\ UNCHANGED << pc, patterns, maxParallelSearches, maxParallel, i, tasks, allHits,
                    errors, completedCount, results, dispatched, observedCancel,
                    settleOrder, progress, call, activeResultsId >>

\* cancelSearch(searchId)
cancelSearch(s) ==
    /\ IF s \in DOMAIN activeSearches
       THEN /\ cancelledTokens' = cancelledTokens \cup TokensOf(activeSearches[s])
            /\ activeSearches' = Delete(activeSearches, s)
       ELSE UNCHANGED << cancelledTokens, activeSearches >>
    /\ UNCHANGED << pc, patterns, maxParallelSearches, maxParallel, i, tasks, allHits, errors,
                    completedCount, results, dispatched, observedCancel, settleOrder,
                    progress, call, activeResultsId >>

\* cancelAllSearches()
cancelAllSearches ==
    /\ cancelledTokens' = cancelledTokens \cup
            UNION { TokensOf(activeSearches[t]) : t \in DOMAIN activeSearches }
    /\ activeSearches' = [t \in {} |-> <<>>]
    /\ UNCHANGED << pc, patterns, maxParallelSearches, maxParallel, i, tasks, allHits, errors,
                    completedCount, results, dispatched, observedCancel, settleOrder,
                    progress, call, activeResultsId >>

\* the state after construction, with the parallel-searches setting among `settings`
Constructed(settings) ==
    /\ pc = [s \in SearchIds |-> "idle"]
    /\ patterns = [s \in SearchIds |-> <<>>]
    /\ maxParallelSearches \in settings
    /\ maxParallel = [s \in SearchIds |-> maxParallelSearches]
    /\ i = [s \in SearchIds |-> 0]
    /\ tasks = [s \in SearchIds |-> <<>>]
    /\ allHits = [s \in SearchIds |-> <<>>]
    /\ errors = [s \in SearchIds |-> <<>>]
    /\ completedCount = [s \in SearchIds |-> 0]
    /\ results = [s \in SearchIds |-> <<>>]
    /\ activeSearches = [t \in {} |-> <<>>]
    /\ cancelledTokens = {}
    /\ dispatched = [s \in SearchIds |-> <<>>]
    /\ observedCancel = {}
    /\ settleOrder = [s \in SearchIds |-> <<>>]
    /\ progress = [s \in SearchIds |-> <<>>]
    /\ call = NoCall
    /\ activeResultsId = undefined

\* a parallel-searches setting of one or more
Init == Constructed(1..MaxParallelBound)

\* a call of executeSearch that is not put under examination
Search(s, libraries) == StartSearch(s, libraries) /\ UNCHANGED << call, activeResultsId >>

\* the return of a remote call of a search the results manager did not start
Return(s, k) == RemoteReturn(s, k) /\ UNCHANGED activeResultsId

\* the steps of the searches `ids`, their requests drawn from `requests`
Step(ids, requests) ==
    \/ \E s \in ids, libraries \in requests : Search(s, libraries)
    \/ \E s \in ids, k \in 1..MaxPatterns : Return(s, k)
    \/ \E s \in SearchIds : cancelSearch(s)
    \/ cancelAllSearches

\* one search, every request
Next == Step({"s1"}, Requests)

Spec == Init /\ [][Next]_vars

\* two searches side by side, short requests
ConcurrentNext == Step(SearchIds, ConcurrentRequests)

ConcurrentSpec == Init /\ [][ConcurrentNext]_vars

\* the return of a remote call whose cancellation has not been requested
LiveReturn(s, k) == Token(s, k) \notin cancelledTokens /\ Return(s, k)

\* The remote system answers every call it was not asked to stop, and the event loop
\* then runs the continuation; a call that was cancelled may never return.
FairSpec ==
    Spec /\ \A s \in SearchIds : \A k \in 1..MaxPatterns : WF_vars(LiveReturn(s, k))

\* Promise.allSettled of a batch without patterns resolves without any remote call,
\* and executeSearch runs on: the loop over no results, `i += maxParallel`, the next
\* slice.
EmptyBatch(s) ==
    /\ pc[s] = "await"
    /\ Len(Batch(Len(patterns[s]), maxParallel[s], i[s])) = 0
    /\ Continue(s, tasks[s], settleOrder[s])
    /\ UNCHANGED << patterns, maxParallelSearches, maxParallel, cancelledTokens,
                    observedCancel, call, activeResultsId >>

\* the values the settings store can hand out: it is read as it is, zero included
ConfiguredValues == 0..MaxParallelBound

TerminationNext == Step({"s1"}, Requests) \/ EmptyBatch("s1")

\* One search under any configured value, where every remote call returns, cancelled
\* or not, and the event loop runs every continuation.
TerminationSpec ==
    /\ Constructed(ConfiguredValues)
    /\ [][TerminationNext]_vars
    /\ \A k \in 1..MaxPatterns : WF_vars(Return("s1", k))
    /\ WF_vars(EmptyBatch("s1"))

\* ------------------------------------------------------------------------
\* The results manager (src/src/ui/resultsManager.ts, src/unnamed/part_005) and the
\* cancel-search command (src/src/extension.ts).

\* FastPfuriousResultsManager.executeSearch(options) up to the await of the executor:
\* a new search id, clearAllResults() in the file that has it, then
\* FastPfuriousExecutor.executeSearch up to its first pending await.
managerExecuteSearch(s, libraries, clears) ==
    /\ StartSearch(s, libraries)
    /\ activeResultsId' = AtSearchStart(clears)
    /\ UNCHANGED call

\* A remote call of a search the results manager started returns.  When it was the
\* last one, FastPfuriousExecutor.executeSearch returns and the manager runs on:
\* `this.activeResultsId = searchId`.
managerReturn(s, k) ==
    /\ RemoteReturn(s, k)
    /\ activeResultsId' = IF pc'[s] = "done" THEN s ELSE activeResultsId

\* the searches whose executeSearch is in flight
SearchesInFlight == { s \in SearchIds : pc[s] = "await" }

\* the cancellation scopes of the remote calls in flight for search s
ScopesInFlight(s) ==
    { Token(s, k) : k \in { j \in 1..Len(patterns[s]) : tasks[s][j].status = "pending" } }

\* The cancel-search command: cancelSearchCommand calls
\* resultsManager.cancelActiveSearch(), which hands activeResultsId, when it is set,
\* to FastPfuriousExecutor.cancelSearch.  `running` and `scopes` in the record are
\* the searches and the scopes in flight when the command ran.
cancelActiveSearch ==
    /\ call = NoCall
    /\ call' = [op |-> "cancelActiveSearch",
                running |-> SearchesInFlight,
                scopes |-> UNION { ScopesInFlight(s) : s \in SearchesInFlight }]
    /\ IF activeResultsId # undefined /\ activeResultsId \in DOMAIN activeSearches
       THEN /\ cancelledTokens' =
                   cancelledTokens \cup TokensOf(activeSearches[activeResultsId])
            /\ activeSearches' = Delete(activeSearches, activeResultsId)
       ELSE UNCHANGED << cancelledTokens, activeSearches >>
    /\ UNCHANGED << pc, patterns, maxParallelSearches, maxParallel, i, tasks, allHits, errors,
                    completedCount, results, dispatched, observedCancel, settleOrder,
                    progress, activeResultsId >>

ManagerSearch ==
    \E s \in SearchIds, libraries \in ConcurrentRequests, clears \in BOOLEAN :
        managerExecuteSearch(s, libraries, clears)

ManagerReturn == \E s \in SearchIds, k \in 1..MaxPatterns : managerReturn(s, k)

ManagerNext == ManagerSearch \/ ManagerReturn \/ cancelActiveSearch

\* searches started through the results manager, and the cancel-search command
ManagerSpec == Init /\ [][ManagerNext]_vars

\* ------------------------------------------------------------------------
\* The search form (src/src/ui/searchModal.ts) and buildLibraryPath.

\* The submit handler of the form (searchModal.ts lines 696-735) in basic search mode:
\* the message it posts, or none after the alert about the context lines.  The box
\* "Case Sensitive" is left unchecked.
\* An afterContext of 0 stands for "no context lines".
SubmitHandler(fields) ==
    LET afterLines == parseInt(fields.afterContext)
    IN  IF fields.showContext /\ (afterLines.isNaN \/ afterLines.n < 0 \/ afterLines.n > 50)
        THEN [posted |-> FALSE]
        ELSE [posted |-> TRUE,
              options |-> [searchTerm |-> Trim(fields.searchTerm),
                           searchLocation |-> fields.searchLocation,
                           caseSensitive |-> FALSE,
                           searchMode |-> "basic",
                           afterContext |-> IF fields.showContext /\ fields.afterContext # ""
                                            THEN afterLines.n ELSE 0]]

\* the checks parseSearchLocation makes on one part of a location: does it throw?
PartThrows(part, location) ==
    \/ Includes(part, "*") /\ ~EndsWith(part, "*") /\ part # "*"
    \/ part = "" /\ location # "*"

\* the body of the loop of parseSearchLocation over one location: does it throw?
LocationThrows(location) ==
    LET parts == Split(location, "/")
    IN  \/ \E k \in 1..Len(parts) : PartThrows(parts[k], location)
        \/ Len(parts) \notin {1, 2, 3}

\* Array.prototype.map(loc => loc.trim().toUpperCase())
TrimUpperAll(pieces) == [k \in 1..Len(pieces) |-> ToUpperCase(Trim(pieces[k]))]

\* parseSearchLocation: the locations it returns (each is its parts joined by "/"
\* again, that is the location itself), or the fact that it throws
parseSearchLocation(searchLocation) ==
    LET locations == NonEmpty(TrimUpperAll(Split(searchLocation, ",")))
    IN  IF \E k \in 1..Len(locations) : LocationThrows(locations[k])
        THEN [threw |-> TRUE, libraries |-> <<>>]
        ELSE [threw |-> FALSE, libraries |-> locations]

\* FastPfuriousSearchModal.executeSearch up to its call of resultsManager.executeSearch:
\* the options it passes on, or the refusal it shows in the form.  An empty
\* searchLocation is falsy: parseSearchLocation is then handed formData.libraries,
\* which the form does not send, and throws.
modalExecuteSearch(formData) ==
    LET parsed == IF formData.searchLocation = ""
                  THEN [threw |-> TRUE, libraries |-> <<>>]
                  ELSE parseSearchLocation(formData.searchLocation)
    IN  IF parsed.threw THEN [accepted |-> FALSE]
        ELSE IF Len(parsed.libraries) = 0 THEN [accepted |-> FALSE]
        ELSE IF Len(Trim(formData.searchTerm)) = 0 THEN [accepted |-> FALSE]
        ELSE [accepted |-> TRUE,
              options |-> [searchTerm |-> Trim(formData.searchTerm),
                           libraries |-> parsed.libraries,
                           caseSensitive |-> formData.caseSensitive = TRUE,
                           smartSearchRegex |-> formData.searchMode = "regex",
                           afterContext |-> IF formData.afterContext > 0
                                            THEN formData.afterContext ELSE 0]]

QSYS == "/QSYS.LIB/"

\* buildLibraryPath
buildLibraryPath(pattern) ==
    LET parts == Split(pattern, "/")
        fallback == QSYS \o ToUpperCase(pattern) \o ".LIB"
    IN  IF Includes(pattern, "/")
        THEN IF Len(parts) = 2
             THEN QSYS \o parts[1] \o ".LIB/" \o parts[2] \o ".FILE"
             ELSE IF Len(parts) = 3
             THEN IF parts[3] = "*"
                  THEN QSYS \o parts[1] \o ".LIB/" \o parts[2] \o ".FILE/*.MBR"
                  ELSE QSYS \o parts[1] \o ".LIB/" \o parts[2] \o ".FILE/" \o parts[3] \o ".MBR"
             ELSE fallback
        ELSE IF pattern = "*ALL" \/ pattern = "ALL" THEN "/QSYS.LIB/*.LIB"
        ELSE IF Includes(pattern, "*") THEN QSYS \o ToUpperCase(pattern) \o ".LIB"
        ELSE QSYS \o ToUpperCase(pattern) \o ".LIB"

\* the resource path of the command executePatternSearch builds for each pattern
ResourcePaths(pats) == [k \in 1..Len(pats) |-> buildLibraryPath(pats[k])]

\* ------------------------------------------------------------------------
\* The command line of one pattern and the shell that reads it

\* the longest search term drawn from TermAlphabet
MaxTermLen == 3

Quote == "'"

DoubleQuote == "\""

Backslash == "\\"

\* String.prototype.replace(/'/g, replacement)
RECURSIVE ReplaceQuotes(_, _)
ReplaceQuotes(text, replacement) ==
    IF text = "" THEN ""
    ELSE (IF Char(text, 1) = Quote THEN replacement ELSE Char(text, 1))
         \o ReplaceQuotes(Tail(text), replacement)

\* the argument wrapped in single quotes, its own quotes left as they are
escapeShellArgumentWrapOnly(arg) == Quote \o arg \o Quote

\* escapeShellArgument: every ' becomes '"'"' and the whole is wrapped in single quotes
escapeShellArgument(arg) ==
    Quote \o ReplaceQuotes(arg, Quote \o DoubleQuote \o Quote \o DoubleQuote \o Quote) \o Quote

\* characters that are operators or start an expansion when the shell meets them
\* outside quotes
ShellOperators == {";", "|", "&", "<", ">", "(", ")", "$", "\n"}

\* The shell of the remote system reading one character of a command line (POSIX
\* token recognition and quoting): r.words are the finished words, r.word the word
\* being read (r.inWord), r.mode is "bare", "single", "double" or "escaped", and
\* r.active tells whether a character acted as an operator or an expansion instead
\* of standing for itself.
ShellStep(r, c) ==
    LET literal == [r EXCEPT !.word = r.word \o c, !.inWord = TRUE]
    IN  CASE r.mode = "single" ->
                 IF c = Quote THEN [r EXCEPT !.mode = "bare"] ELSE literal
          [] r.mode = "double" ->
                 IF c = DoubleQuote THEN [r EXCEPT !.mode = "bare"]
                 ELSE IF c \in {"$", Backslash} THEN [literal EXCEPT !.active = TRUE]
                 ELSE literal
          [] r.mode = "escaped" -> [literal EXCEPT !.mode = "bare"]
          [] OTHER ->
                 IF c = Quote THEN [r EXCEPT !.mode = "single", !.inWord = TRUE]
                 ELSE IF c = DoubleQuote THEN [r EXCEPT !.mode = "double", !.inWord = TRUE]
                 ELSE IF c = Backslash THEN [r EXCEPT !.mode = "escaped"]
                 ELSE IF c = " "
                      THEN [r EXCEPT !.words = IF r.inWord THEN Append(r.words, r.word)
                                               ELSE r.words,
                                     !.word = "", !.inWord = FALSE]
                 ELSE IF c \in ShellOperators THEN [literal EXCEPT !.active = TRUE]
                 ELSE literal

ShellModes == {"bare", "single", "double", "escaped"}

\* the shell after reading a text in state r, the text taken by halves (the state
\* in the middle is computed before the second half is read)
RECURSIVE ShellRun(_, _)
ShellRun(r, text) ==
    IF Len(text) = 0 THEN r
    ELSE IF Len(text) = 1 THEN ShellStep(r, text)
    ELSE LET half == Len(text) \div 2
             mid == ShellRun(r, SubSeq(text, 1, half))
         IN  IF mid.mode \in ShellModes
             THEN ShellRun(mid, SubSeq(text, half + 1, Len(text)))
             ELSE mid

\* the shell after reading a whole command line
ShellRead(text) ==
    ShellRun([words |-> <<>>, word |-> "", inWord |-> FALSE, mode |-> "bare",
              active |-> FALSE], text)

\* what the shell makes of a command line: its words, whether a character acted as
\* an operator or an expansion, and whether every quote was closed
ShellWords(text) ==
    LET r == ShellRead(text)
    IN  [words |-> IF r.inWord THEN Append(r.words, r.word) ELSE r.words,
         active |-> r.active, closed |-> r.mode = "bare"]

\* the command builder with the condition of -F turned around
buildPFGREPCommandFixedInRegexMode(pattern, options, pfgrepPath) ==
    LET flags == (IF ~options.caseSensitive THEN << "-i" >> ELSE <<>>)
                 \o (IF options.smartSearchRegex THEN << "-F" >> ELSE <<>>)
                 \o << "-r", "-n", "-H", "-m 5000" >>
                 \o (IF options.afterContext > 0
                     THEN << "-A " \o NumText(options.afterContext) >> ELSE <<>>)
    IN  pfgrepPath \o " " \o Join(flags, " ") \o " "
        \o escapeShellArgument(options.searchTerm) \o " " \o buildLibraryPath(pattern)

\* buildPFGREPCommandForPattern, with ConnectionManager.getPFGREPPath() as pfgrepPath.
\* An afterContext of 0 stands for one that is 0 or undefined.
buildPFGREPCommandForPattern(pattern, options, pfgrepPath) ==
    LET flags == (IF ~options.caseSensitive THEN << "-i" >> ELSE <<>>)
                 \o (IF ~options.smartSearchRegex THEN << "-F" >> ELSE <<>>)
                 \o << "-r" >>
                 \o << "-n" >>
                 \o << "-H" >>
                 \o << "-m 5000" >>
                 \o (IF options.afterContext > 0
                     THEN << "-A " \o NumText(options.afterContext) >> ELSE <<>>)
        flagString == IF Len(flags) > 0 THEN Join(flags, " ") \o " " ELSE ""
        escapedTerm == escapeShellArgument(options.searchTerm)
        libraryPath == buildLibraryPath(pattern)
    IN  pfgrepPath \o " " \o flagString \o escapedTerm \o " " \o libraryPath

\* ConnectionManager.pfgrepPath before and after validateEnvironment
PFGREPPaths == {"pfgrep", "/QOpenSys/pkgs/bin/pfgrep"}

\* ------------------------------------------------------------------------
\* One request or one command under examination, its inputs drawn from texts.

\* the texts of at most n characters over an alphabet
RECURSIVE TextsUpTo(_, _)
TextsUpTo(alphabet, n) ==
    IF n = 0 THEN { "" }
    ELSE LET shorter == TextsUpTo(alphabet, n - 1)
         IN  shorter \cup { t \o c : t \in shorter, c \in alphabet }

LocationAlphabet == {"a", "B", "*", "/", ","}

RawAlphabet == {"a", ",", " "}

ExampleLocations ==
    {"LIB1, LIB2 ,LIB3", "*ALL", "ALL", "all", "mylib/qrpglesrc/pgm*", "MYLIB/QRPGLESRC/*",
     "*PROD", "PR*OD", "PR*OD*", "PROD*", "A/B/C/D", "liba,LIBA",
     "LIBA LIBB", "LIBA;reboot", "$HOME", "LIBA|tee", "LIBA'"}

\* what a user types into the search location field
LocationTexts == TextsUpTo(LocationAlphabet, MaxTextLen) \cup ExampleLocations

\* the fields of the form with a search term and no context lines
FormWithLocation(t) ==
    [searchLocation |-> t, searchTerm |-> "DCL-S", showContext |-> FALSE, afterContext |-> ""]

\* the forms a user submits
Forms ==
    { FormWithLocation(t) : t \in LocationTexts }
    \cup [searchLocation : {"LIBA", "liba, libb", " , "},
          searchTerm : {"", " ", " DCL-S "},
          showContext : BOOLEAN,
          afterContext : {"", "-1", "0", "3", "50", "51", "2.5"}]

\* options.libraries as other callers of executeSearch may pass it: no raw string,
\* one, or two
RawRequests ==
    { << t >> : t \in TextsUpTo(RawAlphabet, MaxTextLen) \cup ExampleLocations }
    \cup { << t, u >> : t \in TextsUpTo(RawAlphabet, 2), u \in TextsUpTo(RawAlphabet, 2) }
    \cup { <<>> }

\* the number of match lines after which the tool stops (-m 5000), in the scale of
\* the outputs examined here
MatchLimit == 2

\* the output of a tool that stopped at its match limit
LimitOutput == Render([k \in 1..MatchLimit |-> MatchLine(PathA, 9 + k, "DCL-S X;")])

\* what the remote command may answer: exit code 1 means that no line was selected
ToolResults ==
    { r \in [code : {0, 1, 2, 127, 255},
             stdout : { "", Render(<< MatchLine(PathA, 10, "DCL-S X;") >>), LimitOutput },
             stderr : {"", "pfgrep: Permission denied", "pfgrep: No such file or directory",
                       "pfgrep: invalid option -- 'z'",
                       "pfgrep: connection to job QZSHSH failed",
                       "pfgrep: request cancelled by system operator",
                       "pfgrep: Permission denied for connection"}] :
          r.code = 1 => r.stdout = "" }

\* the messages with which sendCommand itself may fail
SendErrors == {"Not connected", "No connection to host", "read ECONNRESET"}

\* executePFGREPCommand when sendCommand throws: the catch block sees its message
sendCommandThrows(message) ==
    [ok |-> FALSE, stdout |-> "", message |-> CatchRethrow(message)]

\* The commands of the first batch of a request, each as executePatternSearch builds
\* it and as the shell to which sendCommand hands it reads it.  The form is open
\* after ConnectionManager.validateEnvironment has set the path of the executable.
SentCommands(options, mp) ==
    LET pats == splitPatterns(options.libraries)
        batch == Batch(Len(pats), mp, 0)
    IN  [j \in 1..Len(batch) |->
            LET command == buildPFGREPCommandForPattern(pats[batch[j]], options,
                                                        "/QOpenSys/pkgs/bin/pfgrep")
            IN  [pattern |-> pats[batch[j]], command |-> command,
                 read |-> ShellWords(command)]]

\* A user submits the form: the submit handler, the message to the extension host,
\* FastPfuriousSearchModal.executeSearch, FastPfuriousResultsManager.executeSearch (a
\* new search id) and FastPfuriousExecutor.executeSearch up to its first await.
SubmitForm(s, fields) ==
    /\ LET message == SubmitHandler(fields)
           handled == IF message.posted THEN modalExecuteSearch(message.options)
                      ELSE [accepted |-> FALSE]
       IN  IF handled.accepted
           THEN /\ StartSearch(s, handled.options.libraries)
                /\ \E clears \in BOOLEAN : activeResultsId' = AtSearchStart(clears)
                /\ call' = [op |-> "form", fields |-> fields, accepted |-> TRUE,
                            options |-> handled.options,
                            paths |-> ResourcePaths(splitPatterns(handled.options.libraries)),
                            commands |-> SentCommands(handled.options, maxParallelSearches)]
           ELSE /\ call' = [op |-> "form", fields |-> fields, accepted |-> FALSE]
                /\ UNCHANGED << pc, patterns, maxParallelSearches, maxParallel, i, tasks,
                                allHits, errors, completedCount, results, activeSearches,
                                cancelledTokens, dispatched, observedCancel, settleOrder,
                                progress, activeResultsId >>

\* another caller hands options.libraries to FastPfuriousExecutor.executeSearch
DirectSearch(s, libraries) ==
    /\ StartSearch(s, libraries)
    /\ call' = [op |-> "executeSearch", libraries |-> libraries]
    /\ UNCHANGED activeResultsId

\* what executeSearch shows once the batches are through: showAggregatedErrors when
\* there are errors, and nothing else
ShownAfterSearch(errs) ==
    IF Len(errs) > 0 /\ ~cancelled
    THEN << [kind |-> "showErrorMessage", errors |-> errs] >>
    ELSE <<>>

\* the SearchResults executeSearch returns (the timestamp left out)
FinalResults(term, hits, searchId) ==
    [term |-> term, hits |-> hits, searchOptions |-> "options", searchId |-> searchId]

\* One pattern execution whose remote command answers `result`: executePFGREPCommand,
\* executePatternSearch, the loop over the outcomes of a batch made of this call alone,
\* and the end of executeSearch.
RunCommand(pattern, result, isCancellationRequested) ==
    /\ LET promise == executePatternSearch(pattern, result, isCancellationRequested)
           folded == ProcessResults([allHits |-> <<>>, errors |-> <<>>,
                                     completedCount |-> 0, calls |-> <<>>],
                                    << promise >>, << pattern >>, << 1 >>, 1)
       IN  call' = [op |-> "command", pattern |-> pattern, result |-> result,
                    isCancellationRequested |-> isCancellationRequested,
                    thrown |-> executePFGREPCommand(result, isCancellationRequested),
                    promise |-> promise,
                    folded |-> folded,
                    shown |-> ShownAfterSearch(folded.errors),
                    returned |-> FinalResults("DCL-S", folded.allHits, "s1")]
    /\ UNCHANGED << pc, patterns, maxParallelSearches, maxParallel, i, tasks, allHits, errors,
                    completedCount, results, activeSearches, cancelledTokens, dispatched,
                    observedCancel, settleOrder, progress,
                    activeResultsId >>

\* one pattern execution whose sendCommand fails
SendFails(message, isCancellationRequested) ==
    /\ call' = [op |-> "sendFailed", message |-> message,
                isCancellationRequested |-> isCancellationRequested,
                thrown |-> sendCommandThrows(message)]
    /\ UNCHANGED << pc, patterns, maxParallelSearches, maxParallel, i, tasks, allHits, errors,
                    completedCount, results, activeSearches, cancelledTokens, dispatched,
                    observedCancel, settleOrder, progress,
                    activeResultsId >>

\* a user submits one form
Submit == call = NoCall /\ \E fields \in Forms : SubmitForm("s1", fields)

\* one direct call of executeSearch
Direct == call = NoCall /\ \E libraries \in RawRequests : DirectSearch("s1", libraries)

\* one pattern execution whose remote command answers
Command ==
    call = NoCall /\ \E result \in ToolResults, c \in BOOLEAN : RunCommand("LIBA", result, c)

\* one pattern execution whose remote command cannot be sent
SendFailure ==
    call = NoCall /\ \E message \in SendErrors, c \in BOOLEAN : SendFails(message, c)

RequestNext == Submit \/ Direct \/ Command \/ SendFailure

\* one request or one command, every text
RequestSpec == Init /\ [][RequestNext]_vars

\* ------------------------------------------------------------------------
\* One command line built and read

\* characters of a search term: a letter and the characters the shell treats specially
TermAlphabet == {"a", Quote, DoubleQuote, " ", "$", Backslash}

ExampleTerms == {"DCL-S X;", "it's", "don't 'quote' me", "$(reboot)", "'; reboot; echo '"}

\* the search terms a caller passes
TermTexts == TextsUpTo(TermAlphabet, MaxTermLen) \cup ExampleTerms

\* escapeShellArgument is applied to one search term and the shell reads the outcome
EscapeTerm(term) ==
    /\ LET escaped == escapeShellArgument(term)
       IN  call' = [op |-> "escape", term |-> term, escaped |-> escaped,
                    read |-> ShellWords(escaped)]
    /\ UNCHANGED << pc, patterns, maxParallelSearches, maxParallel, i, tasks, allHits, errors,
                    completedCount, results, activeSearches, cancelledTokens, dispatched,
                    observedCancel, settleOrder, progress,
                    activeResultsId >>

\* one search term is escaped
Escape == call = NoCall /\ \E term \in TermTexts : EscapeTerm(term)

\* the options of a request as far as the command builder reads them
BuildOptions ==
    [searchTerm : {"DCL-S", "it's", "a b"},
     caseSensitive : BOOLEAN,
     smartSearchRegex : BOOLEAN,
     afterContext : {0, 1, 3, 50}]

BuildPatterns == {"LIBA", "PROD*", "MYLIB/QRPGLESRC", "MYLIB/QRPGLESRC/PGM*"}

\* the command of one pattern is built and the shell reads it
BuildCommand(pattern, options, pfgrepPath) ==
    /\ LET command == buildPFGREPCommandForPattern(pattern, options, pfgrepPath)
       IN  call' = [op |-> "build", pattern |-> pattern, options |-> options,
                    pfgrepPath |-> pfgrepPath, command |-> command,
                    read |-> ShellWords(command)]
    /\ UNCHANGED << pc, patterns, maxParallelSearches, maxParallel, i, tasks, allHits, errors,
                    completedCount, results, activeSearches, cancelledTokens, dispatched,
                    observedCancel, settleOrder, progress,
                    activeResultsId >>

\* one command is built
Build ==
    call = NoCall /\ \E pattern \in BuildPatterns, options \in BuildOptions,
                        pfgrepPath \in PFGREPPaths :
                         BuildCommand(pattern, options, pfgrepPath)

\* is the text `part` found in `text` from position k on?
At(text, k, part) ==
    k >= 1 /\ k + Len(part) - 1 <= Len(text) /\ SubSeq(text, k, k + Len(part) - 1) = part

\* the positions right before an occurrence of `part` in `text`
EndsBefore(text, part) == { k \in 0..Len(text) : At(text, k + 1, part) }

\* path.match(/\/QSYS\.LIB\/(.+)\.LIB\/(.+)\.FILE\/(.+)\.MBR/): the ways in which
\* the expression fits, as << start, end of library, end of file, end of member >>
MemberPathFits(path) ==
    { f \in { k + 1 : k \in EndsBefore(path, "/QSYS.LIB/") }
            \X EndsBefore(path, ".LIB/") \X EndsBefore(path, ".FILE/")
            \X EndsBefore(path, ".MBR") :
        /\ f[2] >= f[1] + 10
        /\ f[3] >= f[2] + 6
        /\ f[4] >= f[3] + 7 }

\* the fit the expression takes: the leftmost start, then each group as long as it
\* can be
Before(f, g) ==
    \/ f[1] < g[1]
    \/ f[1] = g[1] /\ f[2] > g[2]
    \/ f[1] = g[1] /\ f[2] = g[2] /\ f[3] > g[3]
    \/ f[1] = g[1] /\ f[2] = g[2] /\ f[3] = g[3] /\ f[4] >= g[4]

\* ConnectionManager.buildMemberPath
buildMemberPath(library, file, member) ==
    "/QSYS.LIB/" \o ToUpperCase(library) \o ".LIB/" \o ToUpperCase(file) \o ".FILE/"
    \o ToUpperCase(member) \o ".MBR"

\* parseMemberPath with the components as they are written in the path
parseMemberPathAsWritten(path) ==
    LET fits == MemberPathFits(path)
    IN  IF fits = {}
        THEN [threw |-> TRUE, library |-> "", file |-> "", member |-> "", fullPath |-> ""]
        ELSE LET f == CHOOSE g \in fits : \A h \in fits : Before(g, h)
             IN  [threw |-> FALSE,
                  library |-> SubSeq(path, f[1] + 10, f[2]),
                  file |-> SubSeq(path, f[2] + 6, f[3]),
                  member |-> SubSeq(path, f[3] + 7, f[4]),
                  fullPath |-> path]

\* ConnectionManager.parseMemberPath: the components, or the fact that it throws
\* 'Invalid member path format'
parseMemberPath(path) ==
    LET fits == MemberPathFits(path)
    IN  IF fits = {}
        THEN [threw |-> TRUE, library |-> "", file |-> "", member |-> "", fullPath |-> ""]
        ELSE LET f == CHOOSE g \in fits : \A h \in fits : Before(g, h)
             IN  [threw |-> FALSE,
                  library |-> ToUpperCase(SubSeq(path, f[1] + 10, f[2])),
                  file |-> ToUpperCase(SubSeq(path, f[2] + 6, f[3])),
                  member |-> ToUpperCase(SubSeq(path, f[3] + 7, f[4])),
                  fullPath |-> path]

\* names of libraries, files and members, generic names among them
SegmentNames == {"LIBA", "mylib", "PROD*", "*", "A.LIB"}

\* valid patterns of one, two and three segments
RoundTripPatterns ==
    SegmentNames
    \cup { a \o "/" \o b : a \in SegmentNames, b \in SegmentNames }
    \cup { a \o "/" \o b \o "/" \o c : a \in SegmentNames, b \in SegmentNames,
                                       c \in SegmentNames }

\* a pattern is resolved, the path is parsed and the components are resolved again
ResolveParseResolve(pattern) ==
    /\ LET path == buildLibraryPath(pattern)
           parsed == parseMemberPath(path)
       IN  call' = [op |-> "roundTrip", pattern |-> pattern, path |-> path,
                    parsed |-> parsed,
                    rebuilt |-> IF parsed.threw THEN ""
                                ELSE buildMemberPath(parsed.library, parsed.file,
                                                     parsed.member),
                    resolved |-> IF parsed.threw THEN ""
                                 ELSE buildLibraryPath(parsed.library \o "/" \o parsed.file
                                                       \o "/" \o parsed.member)]
    /\ UNCHANGED << pc, patterns, maxParallelSearches, maxParallel, i, tasks, allHits, errors,
                    completedCount, results, activeSearches, cancelledTokens, dispatched,
                    observedCancel, settleOrder, progress,
                    activeResultsId >>

\* one pattern makes the round trip
RoundTrip == call = NoCall /\ \E pattern \in RoundTripPatterns : ResolveParseResolve(pattern)

\* the longest output of the tool, in lines
MaxLines == 3

\* a line of the output that has neither shape
OtherLine(text) == [kind |-> "other", path |-> "", number |-> 0, content |-> text]

\* lines the tool may print: match lines and context lines of two members, some
\* with a content that holds a time or a subtraction, and lines of neither shape
OutputLines ==
    { MatchLine(PathA, 10, "DCL-S X;"), MatchLine(PathB, 7, "DCL-S X;"),
      MatchLine(PathA, 12, "T = 10:30:00;"),
      ContextLine(PathA, 11, "  X = 1;"), ContextLine(PathB, 8, "Y = 2;"),
      ContextLine(PathA, 14, "T = 10:30:00;"), ContextLine(PathA, 15, "X = A-5-B;"),
      OtherLine(""), SeparatorLine, OtherLine("pfgrep: warning"), OtherLine(":1:x") }

\* the hits parsePFGREPOutputToHits has collected after each line of an output
HitsAfterEachLine(lines) ==
    [k \in 1..Len(lines) |-> parsePFGREPOutputToHits(Render(SubSeq(lines, 1, k)))]

\* parsePFGREPOutputToHits is applied to one output of the tool
ParseOutput(lines) ==
    /\ call' = [op |-> "parse", lines |-> lines, output |-> Render(lines),
                hits |-> parsePFGREPOutputToHits(Render(lines)),
                hitsAfter |-> HitsAfterEachLine(lines)]
    /\ UNCHANGED << pc, patterns, maxParallelSearches, maxParallel, i, tasks, allHits, errors,
                    completedCount, results, activeSearches, cancelledTokens, dispatched,
                    observedCancel, settleOrder, progress,
                    activeResultsId >>

\* one output of the tool is parsed
Parse == call = NoCall /\ \E lines \in SeqsUpTo(OutputLines, MaxLines) : ParseOutput(lines)

CommandNext == Escape \/ Build \/ Parse \/ RoundTrip

\* one command line built and read, or one output parsed, every text
CommandSpec == Init /\ [][CommandNext]_vars

\* ------------------------------------------------------------------------
\* Properties

\* the pattern executions of search s whose remote command is sent and not returned
InFlight(s) == { k \in DOMAIN tasks[s] : tasks[s][k].status = "pending" }

Running(s) == pc[s] \in {"await", "done"}

\* ceil(n / mp)
NumBatches(s) == (Len(patterns[s]) + maxParallel[s] - 1) \div maxParallel[s]

\* batch b of the partition of 1..n into consecutive runs of mp
ExpectedBatch(s, b) ==
    LET n == Len(patterns[s])
        mp == maxParallel[s]
        size == IF b * mp <= n THEN mp ELSE n - (b - 1) * mp
    IN  [j \in 1..size |-> (b - 1) * mp + j]

\* C1: at every instant the number of pattern executions of a search whose remote
\* command has been sent and has not yet returned is at most maxParallel.
C1_InFlightBounded ==
    \A s \in SearchIds : Cardinality(InFlight(s)) <= maxParallel[s]

\* a full batch is in flight while more patterns than maxParallel remain to be run
C1_Witness ==
    \E s \in SearchIds :
        /\ pc[s] = "await"
        /\ maxParallel[s] = 2
        /\ Len(patterns[s]) = 3
        /\ Cardinality(InFlight(s)) = 2

\* C2: no pattern of batch N+1 is dispatched before every pattern of batch N has
\* settled (fulfilled or rejected): every batch that has a successor is settled.
C2_BatchesSequential ==
    \A s \in SearchIds :
        \A b \in 1..(Len(dispatched[s]) - 1) :
            \A j \in 1..Len(dispatched[s][b]) : Settled(tasks[s][dispatched[s][b][j]])

\* batch 2 is in flight after a batch 1 of two patterns, one fulfilled, one rejected
C2_Witness ==
    \E s \in SearchIds :
        /\ pc[s] = "await"
        /\ Len(dispatched[s]) = 2
        /\ Len(dispatched[s][1]) = 2
        /\ tasks[s][1].status = "rejected"
        /\ tasks[s][2].status = "fulfilled"
        /\ tasks[s][3].status = "pending"

\* C3: the n split patterns are partitioned in input order into consecutive batches
\* of exactly maxParallel patterns, only the last one smaller: the batches issued
\* are the first ones of that partition, and all ceil(n / maxParallel) of them once
\* the search has returned.
C3_BatchPartition ==
    \A s \in SearchIds :
        Running(s) =>
            /\ Len(dispatched[s]) <= NumBatches(s)
            /\ \A b \in 1..Len(dispatched[s]) : dispatched[s][b] = ExpectedBatch(s, b)
            /\ pc[s] = "done" => Len(dispatched[s]) = NumBatches(s)

\* three patterns with maxParallel = 2 were run as batches of sizes 2 and 1
C3_Witness ==
    \E s \in SearchIds :
        /\ pc[s] = "done"
        /\ maxParallel[s] = 2
        /\ Len(patterns[s]) = 3
        /\ dispatched[s] = << << 1, 2 >>, << 3 >> >>

\* what the remote system answers for pattern k of search s
ExitCode(s, k) == RemoteResult(patterns[s][k]).code

\* the execution of pattern k found its cancellation requested
WasCancelled(s, k) == Token(s, k) \in observedCancel

\* pattern k ran to a success: exit code 0 or 1, not cancelled
Succeeded(s, k) == ExitCode(s, k) \in {0, 1} /\ ~WasCancelled(s, k)

\* the hits of the patterns k.. that succeeded, in pattern order
RECURSIVE ExpectedHits(_, _)
ExpectedHits(s, k) ==
    IF k > Len(patterns[s]) THEN <<>>
    ELSE (IF Succeeded(s, k)
          THEN parsePFGREPOutputToHits(RemoteResult(patterns[s][k]).stdout)
          ELSE <<>>) \o ExpectedHits(s, k + 1)

\* the patterns k.. that did not succeed, in pattern order
RECURSIVE UnsuccessfulPatterns(_, _)
UnsuccessfulPatterns(s, k) ==
    IF k > Len(patterns[s]) THEN <<>>
    ELSE (IF Succeeded(s, k) THEN <<>> ELSE << patterns[s][k] >>)
         \o UnsuccessfulPatterns(s, k + 1)

ErrorPatterns(s) == [m \in 1..Len(errors[s]) |-> errors[s][m].pattern]

NumErrorsNaming(s, name) ==
    Cardinality({ m \in 1..Len(errors[s]) : errors[s][m].pattern = name })

\* C4: a failing pattern does not stop its siblings: when the search returns every
\* pattern has been dispatched and has settled, the result holds the hits of every
\* pattern that succeeded, and the errors name, one entry each and in pattern order,
\* exactly the patterns that did not succeed.
C4_FailureIsolated ==
    \A s \in SearchIds :
        pc[s] = "done" =>
            /\ \A k \in 1..Len(patterns[s]) : Settled(tasks[s][k])
            /\ results[s] = ExpectedHits(s, 1)
            /\ ErrorPatterns(s) = UnsuccessfulPatterns(s, 1)
            /\ \A k \in 1..Len(patterns[s]) :
                   (ExitCode(s, k) > 1 /\ ~WasCancelled(s, k)) =>
                       NumErrorsNaming(s, patterns[s][k]) =
                           Cardinality({ j \in 1..Len(patterns[s]) :
                                           /\ patterns[s][j] = patterns[s][k]
                                           /\ ~Succeeded(s, j) })

\* pattern A failed with exit code 2 / "Permission denied", its sibling B of the same
\* batch succeeded with two hits, nothing was cancelled
C4_Witness ==
    \E s \in SearchIds :
        /\ pc[s] = "done"
        /\ patterns[s] = << "NOAUTH", "LIB*" >>
        /\ maxParallel[s] = 2
        /\ observedCancel = {}
        /\ Len(results[s]) = 2
        /\ errors[s] = << [pattern |-> "NOAUTH",
                           error |-> << "NOAUTH", "Don't have authority to that library" >>] >>

\* cancelSearch or cancelAllSearches has cancelled a scope of search s
SearchCancelled(s) == \E k \in 1..Len(patterns[s]) : Token(s, k) \in cancelledTokens

\* C5: when the whole search is cancelled after batch 1 of 3 has been dispatched and
\* before batch 2 starts, no pattern of batch 2 or 3 is ever dispatched, and the hits
\* of the batch-1 patterns that completed before the cancellation are in the result.
C5_CancelStopsDispatch ==
    /\ [][ \A s \in SearchIds :
              ( /\ pc[s] = "await"
                /\ NumBatches(s) = 3
                /\ Len(dispatched[s]) = 1
                /\ SearchCancelled(s) )
              => dispatched'[s] = dispatched[s] ]_vars
    /\ [](\A s \in SearchIds :
              pc[s] = "done" =>
                  \A k \in 1..Len(patterns[s]) :
                      (k <= maxParallel[s] /\ tasks[s][k].status = "fulfilled") =>
                          \A h \in 1..Len(tasks[s][k].value) :
                              \E a \in 1..Len(results[s]) :
                                  results[s][a] = tasks[s][k].value[h])

\* C6: a pattern whose execution was cancelled contributes nothing: none of its
\* output is among the hits and no PatternError is recorded for it.
C6_CancelledExcluded ==
    \A s \in SearchIds :
        pc[s] = "done" =>
            /\ results[s] = ExpectedHits(s, 1)
            /\ \A name \in PatternNames :
                   NumErrorsNaming(s, name) <=
                       Cardinality({ k \in 1..Len(patterns[s]) :
                                       patterns[s][k] = name /\ ~WasCancelled(s, k) })

\* C7: after the in-flight remote call of a pattern is cancelled the orchestrator stops
\* waiting on it: executeSearch goes on and returns even if that call never returns.
C7_CancelledCallNotAwaited ==
    \A s \in SearchIds :
        (pc[s] = "await" /\ \E k \in InFlight(s) : Token(s, k) \in cancelledTokens)
            ~> (pc[s] = "done")

\* the registry entry of search t is the same before and after the step
EntryUnchanged(t) ==
    /\ (t \in DOMAIN activeSearches) <=> (t \in DOMAIN activeSearches')
    /\ t \in DOMAIN activeSearches => activeSearches'[t] = activeSearches[t]

\* C8: cancelSearch(searchId) cancels every scope registered for that search and
\* leaves the scopes and the registry entries of every other search unchanged;
\* cancelAllSearches cancels every registered scope and leaves the registry empty.
C8_CancelFrame ==
    [][ /\ \A s \in SearchIds :
             cancelSearch(s) =>
                 /\ s \in DOMAIN activeSearches =>
                        TokensOf(activeSearches[s]) \subseteq cancelledTokens'
                 /\ s \notin DOMAIN activeSearches'
                 /\ \A t \in SearchIds \ {s} : EntryUnchanged(t)
                 /\ \A tok \in cancelledTokens' \ cancelledTokens : tok[1] = s
        /\ cancelAllSearches =>
             /\ \A t \in DOMAIN activeSearches :
                    TokensOf(activeSearches[t]) \subseteq cancelledTokens'
             /\ DOMAIN activeSearches' = {}
      ]_vars

\* one of two running searches has been cancelled: its two scopes are cancelled and
\* its entry is gone, the other search keeps its entry and its scopes uncancelled
C8_Witness ==
    /\ pc["s1"] = "await" /\ pc["s2"] = "await"
    /\ InFlight("s1") = {1, 2}
    /\ { Token("s1", 1), Token("s1", 2) } \subseteq cancelledTokens
    /\ "s1" \notin DOMAIN activeSearches
    /\ "s2" \in DOMAIN activeSearches
    /\ Len(activeSearches["s2"]) = 2
    /\ TokensOf(activeSearches["s2"]) \cap cancelledTokens = {}

\* the position of a resource path in the ordinal order of the paths
PathRank(path) == CHOOSE r \in 1..Len(Paths) : Paths[r] = path

\* every line of the hit `h` is a line of the hit `g`
LinesWithin(h, g) ==
    \A x \in 1..Len(h.lines) : \E y \in 1..Len(g.lines) : g.lines[y] = h.lines[x]

\* C9: no two hits of the returned SearchResult have the same resourcePath; a path
\* that several patterns returned lines for has one Hit holding the lines of all.
C9_OneHitPerPath ==
    \A s \in SearchIds :
        pc[s] = "done" =>
            /\ \A a, b \in 1..Len(results[s]) :
                   a # b => results[s][a].path # results[s][b].path
            /\ \A k \in 1..Len(patterns[s]) :
                   tasks[s][k].status = "fulfilled" =>
                       \A h \in 1..Len(tasks[s][k].value) :
                           \E a \in 1..Len(results[s]) :
                               /\ results[s][a].path = tasks[s][k].value[h].path
                               /\ LinesWithin(tasks[s][k].value[h], results[s][a])

\* C10: the hits of the returned SearchResult are in ascending order of resourcePath.
C10_HitsSorted ==
    \A s \in SearchIds :
        pc[s] = "done" =>
            \A a, b \in 1..Len(results[s]) :
                a < b => PathRank(results[s][a].path) <= PathRank(results[s][b].path)

\* no execution of search s found its token cancelled
Undisturbed(s) == \A k \in 1..Len(patterns[s]) : Token(s, k) \notin observedCancel

\* the hits the remote outputs of a list of patterns give, pattern after pattern
RECURSIVE HitsInRequestOrder(_)
HitsInRequestOrder(pats) ==
    IF pats = <<>> THEN <<>>
    ELSE LET result == RemoteResult(Head(pats))
         IN  (IF result.code \in {0, 1} THEN parsePFGREPOutputToHits(result.stdout)
              ELSE <<>>) \o HitsInRequestOrder(Tail(pats))

\* C11: for a fixed request and fixed remote outputs per pattern, the sequence of hits
\* of the returned SearchResult is the same for every order in which the remote calls
\* of a batch complete: it is a function of the split patterns alone.
C11_OrderIndependent ==
    \A s \in SearchIds :
        (pc[s] = "done" /\ Undisturbed(s)) => results[s] = HitsInRequestOrder(patterns[s])

\* a batch of two whose second call completed first, both with hits
C11_Witness ==
    \E s \in SearchIds :
        /\ pc[s] = "done"
        /\ Undisturbed(s)
        /\ patterns[s] = << "LIBB", "LIBA" >>
        /\ settleOrder[s] = << 2, 1 >>
        /\ Len(results[s]) = 2

\* the hits of the patterns 1..c of search s that were fulfilled, in pattern order
RECURSIVE MergedUpTo(_, _)
MergedUpTo(s, c) ==
    IF c = 0 THEN <<>> ELSE MergedUpTo(s, c - 1) \o tasks[s][c].value

\* the last pattern of the batch pattern c of search s belongs to
BatchEnd(s, c) ==
    Min(((c - 1) \div maxParallel[s] + 1) * maxParallel[s], Len(patterns[s]))

\* what every call of the progress callback has in common: call c comes after pattern
\* c settled, its completedCount is c (failed patterns counted), its totalCount is the
\* number of split patterns and its snapshot held the hits merged so far
ProgressCallsInOrder(s) ==
    /\ Len(progress[s]) = completedCount[s]
    /\ pc[s] = "done" => Len(progress[s]) = Len(patterns[s])
    /\ \A c \in 1..Len(progress[s]) :
           /\ Settled(tasks[s][c])
           /\ progress[s][c].completedCount = c
           /\ progress[s][c].totalCount = Len(patterns[s])
           /\ progress[s][c].delivered = MergedUpTo(s, c)

\* C12 as stated: the progress callback is invoked once for each pattern after that
\* pattern settles, with completedCount equal to the number of patterns that have
\* settled at the time of the call, totalCount equal to the number of split patterns
\* and a snapshot holding the hits merged so far; completedCount takes the values
\* 1, 2, ..., total in order and failed patterns are counted too.
C12_CountIsSettledCount ==
    \A s \in SearchIds :
        /\ ProgressCallsInOrder(s)
        /\ \A c \in 1..Len(progress[s]) :
               progress[s][c].completedCount = progress[s][c].settledAtCall

\* C12 amended: the progress callback is invoked once for each pattern, in pattern
\* order, once the whole batch of that pattern has settled; completedCount is the
\* number of patterns folded into the aggregates so far (1, 2, ..., total in order,
\* failed patterns counted too), which is at most the number of patterns settled at
\* the time of the call and equals it at the last call of each batch; totalCount is the
\* number of split patterns and the snapshot holds the hits merged so far.
C12_CountIsFoldedCount ==
    \A s \in SearchIds :
        /\ ProgressCallsInOrder(s)
        /\ \A c \in 1..Len(progress[s]) :
               /\ progress[s][c].settledAtCall = BatchEnd(s, c)
               /\ progress[s][c].completedCount <= progress[s][c].settledAtCall

\* three patterns in batches of two, the second one failing: the first call reports 1
\* while two patterns have settled, and the failed pattern has its call
C12_Witness ==
    \E s \in SearchIds :
        /\ pc[s] = "done"
        /\ patterns[s] = << "LIBA", "NOAUTH", "LIBB" >>
        /\ maxParallel[s] = 2
        /\ Len(progress[s]) = 3
        /\ progress[s][1].settledAtCall = 2
        /\ progress[s][2].completedCount = 2
        /\ Len(progress[s][3].delivered) = 2

\* the content of the array a `hits` field points to, read now
Deref(s, ref) == IF ref = AllHitsArray THEN allHits[s] ELSE <<>>

\* C13: each intermediate SearchResult passed to the progress callback is a copy:
\* merging the hits of a later pattern, or building the final result, does not change
\* the hits of any snapshot delivered earlier.
C13_SnapshotsAreCopies ==
    \A s \in SearchIds :
        \A c \in 1..Len(progress[s]) :
            Deref(s, progress[s][c].hits) = progress[s][c].delivered

ToolFailed ==
    /\ call.op = "command"
    /\ ~call.isCancellationRequested
    /\ call.result.code \notin {0, 1}

\* C15: for a failed execution (exit code other than 0 and 1), stderr containing
\* "Permission denied" is reported as the permission-denied error, otherwise stderr
\* containing "No such file or directory" is reported as the resource-not-found error,
\* and in every other case the reported message is the stderr text verbatim, whatever
\* that text contains.
C15_StderrClassified ==
    ToolFailed =>
        LET stderr == call.result.stderr
            message == IF Includes(stderr, "Permission denied")
                       THEN "Don't have authority to that library"
                       ELSE IF Includes(stderr, "No such file or directory")
                       THEN "Library does not exist or is not accessible"
                       ELSE stderr
        IN  /\ call.thrown.message = message
            /\ call.folded.errors = << [pattern |-> call.pattern,
                                        error |-> << call.pattern, message >>] >>

\* C16: an execution is reported as 'Search cancelled by user' only if its cancellation
\* scope was cancelled, and as 'Connection lost to IBM i system' only if the remote
\* channel itself failed; a tool failure (exit code > 1) is never reported as either.
C16_OutcomesFaithful ==
    call.op \in {"command", "sendFailed"} =>
        /\ call.thrown.message = "Search cancelled by user" => call.isCancellationRequested
        /\ call.thrown.message = "Connection lost to IBM i system" => call.op = "sendFailed"
        /\ ToolFailed => call.thrown.message \notin {"Search cancelled by user",
                                                    "Connection lost to IBM i system"}

\* the wildcard character occurs in a segment at its last position only
WildcardOnlyTrailing(segment) ==
    \A k \in 1..Len(segment) : Char(segment, k) = "*" => k = Len(segment)

\* a pattern of one to three non-empty segments with trailing wildcards only, or one
\* of the reserved tokens
WellFormedPattern(pattern) ==
    LET segments == Split(pattern, "/")
    IN  \/ pattern \in {"*ALL", "ALL"}
        \/ /\ Len(segments) \in {1, 2, 3}
           /\ \A k \in 1..Len(segments) :
                  segments[k] # "" /\ WildcardOnlyTrailing(segments[k])

\* the patterns a text of the search location field stands for
PiecesOf(text) == splitPatterns(<< text >>)

\* the after-context value of a form: 0 when context lines are switched off
AfterContextOf(fields) ==
    IF fields.showContext THEN parseInt(fields.afterContext) ELSE [isNaN |-> FALSE, n |-> 0]

\* a form the specification calls invalid
InvalidRequest(fields) ==
    \/ Trim(fields.searchTerm) = ""
    \/ PiecesOf(fields.searchLocation) = <<>>
    \/ AfterContextOf(fields).isNaN \/ AfterContextOf(fields).n \notin 0..50
    \/ \E k \in 1..Len(PiecesOf(fields.searchLocation)) :
           ~WellFormedPattern(PiecesOf(fields.searchLocation)[k])

\* no command was sent for search s and the registry holds no entry for it
NothingSent(s) ==
    /\ pc[s] \in {"idle", "failed"}
    /\ dispatched[s] = <<>>
    /\ \A k \in DOMAIN tasks[s] : tasks[s][k].status = "notStarted"
    /\ s \notin DOMAIN activeSearches

\* C17: a request with an empty search term, an empty pattern list after splitting,
\* an after-context value outside 0..50, or a malformed pattern is rejected before any
\* remote command is sent: executeSearch ends with an error, zero commands are
\* dispatched and no entry for the searchId remains in the active-search registry.
C17_InvalidRequestRejected ==
    /\ (call.op = "form" /\ InvalidRequest(call.fields)) =>
           ~call.accepted /\ NothingSent("s1")
    /\ (call.op = "executeSearch" /\ splitPatterns(call.libraries) = <<>>) =>
           pc["s1"] = "failed" /\ NothingSent("s1")

\* the resource path the specification gives for a well-formed pattern
ClaimedPath(pattern) ==
    LET name == ToUpperCase(pattern)
        segments == Split(name, "/")
    IN  IF name \in {"*ALL", "ALL"} THEN "/QSYS.LIB/*.LIB"
        ELSE IF Len(segments) = 1 THEN "/QSYS.LIB/" \o segments[1] \o ".LIB"
        ELSE IF Len(segments) = 2
        THEN "/QSYS.LIB/" \o segments[1] \o ".LIB/" \o segments[2] \o ".FILE"
        ELSE "/QSYS.LIB/" \o segments[1] \o ".LIB/" \o segments[2] \o ".FILE/"
             \o segments[3] \o ".MBR"

\* a text without lower-case letters
IsUpperCase(text) ==
    \A k \in 1..Len(text) : \A j \in 1..Len(LowerCaseLetters) :
        Char(text, k) # Char(LowerCaseLetters, j)

\* C19: for every search location a user can submit, the resolved resource path is
\* /QSYS.LIB/<LIB>.LIB for one segment, /QSYS.LIB/<LIB>.LIB/<FILE>.FILE for two,
\* /QSYS.LIB/<LIB>.LIB/<FILE>.FILE/<MBR>.MBR for three with a member segment of exactly
\* * giving *.MBR, and /QSYS.LIB/*.LIB for the tokens *ALL and ALL; every literal name
\* in the resolved path is upper case whatever the case of the input.
C19_ResolvedPath ==
    (call.op = "form" /\ ~InvalidRequest(call.fields)) =>
        LET pieces == PiecesOf(call.fields.searchLocation)
        IN  /\ call.accepted
            /\ Len(call.paths) = Len(pieces)
            /\ \A k \in 1..Len(pieces) :
                   /\ call.paths[k] = ClaimedPath(pieces[k])
                   /\ IsUpperCase(call.paths[k])

\* the patterns of search s for which a command has been sent
DispatchedPatterns(s) ==
    { patterns[s][k] : k \in { k \in 1..Len(patterns[s]) :
          \E b \in 1..Len(dispatched[s]) :
              \E j \in 1..Len(dispatched[s][b]) : dispatched[s][b][j] = k } }

\* every segment of a pattern has the wildcard character at its last position only
TrailingWildcardsOnly(pattern) ==
    \A k \in 1..Len(Split(pattern, "/")) : WildcardOnlyTrailing(Split(pattern, "/")[k])

\* C20: every pattern that reaches dispatch has the wildcard character * only as the
\* last character of a path segment: a pattern with * at any other position of a
\* segment (such as *PROD, PR*OD or PR*OD*) is rejected as an invalid pattern and no
\* command is sent for the request.
C20_WildcardsTrailOnly ==
    call.op = "form" =>
        /\ \A pattern \in DispatchedPatterns("s1") : TrailingWildcardsOnly(pattern)
        /\ (\E k \in 1..Len(PiecesOf(call.fields.searchLocation)) :
                ~TrailingWildcardsOnly(PiecesOf(call.fields.searchLocation)[k]))
           => ~call.accepted /\ NothingSent("s1")

\* the positions at which the comma-separated fields of a text start
FieldStarts(text) ==
    {1} \cup { k + 1 : k \in { c \in 1..Len(text) : Char(text, c) = "," } }

\* the position just after the field that starts at position a
FieldEnd(text, a) ==
    IF \E c \in a..Len(text) : Char(text, c) = ","
    THEN CHOOSE c \in a..Len(text) :
             Char(text, c) = "," /\ \A d \in a..(c - 1) : Char(text, d) # ","
    ELSE Len(text) + 1

\* the positions of the field starting at a that hold something else than white space
Inked(text, a) == { k \in a..(FieldEnd(text, a) - 1) : Char(text, k) # " " }

\* the fields of a text that are not blank, each without its surrounding white space,
\* in the order of the text
ExpectedPieces(text) ==
    LET kept == { a \in FieldStarts(text) : Inked(text, a) # {} }
        nth(r) == CHOOSE a \in kept : Cardinality({ b \in kept : b <= a }) = r
        first(a) == CHOOSE k \in Inked(text, a) : \A j \in Inked(text, a) : k <= j
        last(a) == CHOOSE k \in Inked(text, a) : \A j \in Inked(text, a) : k >= j
    IN  [r \in 1..Cardinality(kept) |-> SubSeq(text, first(nth(r)), last(nth(r)))]

RECURSIVE ExpectedPatterns(_)
ExpectedPatterns(libraries) ==
    IF libraries = <<>> THEN <<>>
    ELSE ExpectedPieces(Head(libraries)) \o ExpectedPatterns(Tail(libraries))

\* C18: splitPatterns returns, in input order, every comma-separated piece of the raw
\* pattern strings with surrounding whitespace removed, drops exactly the pieces that
\* are empty after trimming, and keeps duplicates ("LIB1, LIB2 ,LIB3" gives
\* ["LIB1","LIB2","LIB3"]); when the result is empty the search fails instead of
\* dispatching.
C18_SplitPatterns ==
    call.op = "executeSearch" =>
        LET expected == ExpectedPatterns(call.libraries)
        IN  IF expected = <<>>
            THEN pc["s1"] = "failed" /\ NothingSent("s1")
            ELSE /\ pc["s1"] = "await"
                 /\ patterns["s1"] = expected
                 /\ DispatchedPatterns("s1") # {}

\* the example of the specification has been split and its first batch dispatched
C18_Witness ==
    /\ call.op = "executeSearch"
    /\ call.libraries = << "LIB1, LIB2 ,LIB3" >>
    /\ patterns["s1"] = << "LIB1", "LIB2", "LIB3" >>
    /\ pc["s1"] = "await"

\* C21: for every search term, a POSIX shell that reads escapeShellArgument(term)
\* sees exactly one word, equal to the term character for character, and no
\* character of it acts as an operator or an expansion.
C21_EscapeRoundTrip ==
    call.op = "escape" =>
        call.read = [words |-> << call.term >>, active |-> FALSE,
                                    closed |-> TRUE]

\* reached: a term with a single quote, a double quote and a dollar sign was escaped
C21_Witness ==
    /\ call.op = "escape"
    /\ Includes(call.term, Quote)
    /\ Includes(call.term, DoubleQuote)
    /\ Includes(call.term, "$")

\* is this flag part of the command of a request with these options?
FlagPresent(flag, options) ==
    CASE flag = "-i" -> ~options.caseSensitive
      [] flag = "-F" -> ~options.smartSearchRegex
      [] flag = "-A" -> options.afterContext > 0
      [] OTHER -> TRUE

\* the flags in their fixed order, each with its value
FlagOrder ==
    << << "-i" >>, << "-F" >>, << "-r" >>, << "-n" >>, << "-H" >>, << "-m", "5000" >>,
       << "-A" >> >>

\* the words of the flags a request with these options calls for
RECURSIVE ExpectedFlags(_, _)
ExpectedFlags(options, k) ==
    IF k > Len(FlagOrder) THEN <<>>
    ELSE (IF ~FlagPresent(FlagOrder[k][1], options) THEN <<>>
          ELSE IF FlagOrder[k][1] = "-A"
               THEN << "-A", NumText(options.afterContext) >>
          ELSE FlagOrder[k])
         \o ExpectedFlags(options, k + 1)

\* C24: the command built for a pattern is the executable path, the flags, the
\* escaped term and the resource path, separated by single spaces; the flags come in
\* the order -i, -F, -r, -n, -H, -m 5000, -A n, of which -r, -n, -H and -m 5000 are
\* always present, -i exactly when the search is not case sensitive, -F exactly when
\* it is not in regex mode, and -A n exactly when afterContext > 0.
C24_CommandFormat ==
    call.op = "build" =>
        LET flags == ExpectedFlags(call.options, 1)
        IN  /\ call.command =
                   Join(<< call.pfgrepPath >> \o flags
                        \o << escapeShellArgument(call.options.searchTerm),
                              buildLibraryPath(call.pattern) >>, " ")
            /\ call.read.words =
                   << call.pfgrepPath >> \o flags
                   \o << call.options.searchTerm, buildLibraryPath(call.pattern) >>

\* reached: a command with every flag, and one with the fixed flags alone
C24_Witness ==
    /\ call.op = "build"
    /\ call.options = [searchTerm |-> "it's", caseSensitive |-> FALSE,
                       smartSearchRegex |-> FALSE, afterContext |-> 50]
    /\ call.pattern = "MYLIB/QRPGLESRC/PGM*"
    /\ call.command = "/QOpenSys/pkgs/bin/pfgrep -i -F -r -n -H -m 5000 -A 50 "
                      \o "'it'\"'\"'s' /QSYS.LIB/MYLIB.LIB/QRPGLESRC.FILE/PGM*.MBR"

\* C30: every command sent to the remote shell is shell-safe with respect to the
\* search term and the location pattern the user typed: the shell reads it as one
\* simple command whose words are the executable, the flags, the term and one
\* resource path, and no character of it acts as an operator, an expansion or a
\* separator of arguments.
C30_CommandsShellSafe ==
    (call.op = "form" /\ call.accepted) =>
        \A j \in 1..Len(call.commands) :
            LET sent == call.commands[j]
            IN  /\ sent.read.closed
                /\ ~sent.read.active
                /\ sent.read.words =
                       << "/QOpenSys/pkgs/bin/pfgrep" >> \o ExpectedFlags(call.options, 1)
                       \o << call.options.searchTerm, buildLibraryPath(sent.pattern) >>

IsShaped(line) == line.kind \in {"match", "context"}

\* the resource paths of the shaped lines of an output, each once, in first-seen order
RECURSIVE FirstSeenPaths(_, _)
FirstSeenPaths(lines, seen) ==
    IF lines = <<>> THEN seen
    ELSE FirstSeenPaths(Tail(lines),
                        IF IsShaped(Head(lines))
                           /\ \A k \in 1..Len(seen) : seen[k] # Head(lines).path
                        THEN Append(seen, Head(lines).path) ELSE seen)

\* number and kind of the lines of one resource path, in the order of the output
RECURSIVE LinesOfPath(_, _)
LinesOfPath(lines, path) ==
    IF lines = <<>> THEN <<>>
    ELSE (IF IsShaped(Head(lines)) /\ Head(lines).path = path
          THEN << [number |-> Head(lines).number,
                   isContext |-> Head(lines).kind = "context"] >>
          ELSE <<>>)
         \o LinesOfPath(Tail(lines), path)

\* number and kind of the lines of a hit
NumbersOf(hit) ==
    [k \in 1..Len(hit.lines) |->
        [number |-> hit.lines[k].number, isContext |-> hit.lines[k].isContext]]

\* do these hits attach every line of the output to the hit of its own path?
HitsFollowLines(hits, lines) ==
    LET paths == FirstSeenPaths(lines, <<>>)
    IN  /\ Len(hits) = Len(paths)
        /\ \A h \in 1..Len(hits) :
               /\ hits[h].path = paths[h]
               /\ NumbersOf(hits[h]) = LinesOfPath(lines, paths[h])

\* C25: for tool output made of lines '<resourcePath>:<n>:<content>' and
\* '<resourcePath>-<n>-<content>', the parser produces exactly one Hit per distinct
\* resourcePath, in first-seen order, and each line is attached to the Hit of its
\* own resourcePath with number n, isContext false for the ':' shape and true for
\* the '-' shape, whatever the content.
C25_OneHitPerPathInOrder ==
    call.op = "parse" => HitsFollowLines(call.hits, call.lines)

\* the hits collected before line k of the output under examination
HitsBefore(k) == IF k = 1 THEN <<>> ELSE call.hitsAfter[k - 1]

\* C26: parsing never fails: blank lines, separator lines and lines of neither
\* shape add nothing and leave the hits collected so far unchanged, and a context
\* line seen before any other line of its path creates the Hit for that path.
C26_MalformedIgnored ==
    call.op = "parse" =>
        /\ Len(call.hitsAfter) = Len(call.lines)
        /\ Len(call.lines) > 0 => call.hits = call.hitsAfter[Len(call.lines)]
        /\ \A k \in 1..Len(call.lines) :
               LET line == call.lines[k]
               IN  /\ ~IsShaped(line) => call.hitsAfter[k] = HitsBefore(k)
                   /\ (/\ line.kind = "context"
                       /\ \A j \in 1..(k - 1) :
                              IsShaped(call.lines[j]) => call.lines[j].path # line.path)
                      => call.hitsAfter[k] =
                             Append(HitsBefore(k),
                                    [path |-> line.path,
                                     lines |-> << [number |-> line.number,
                                                   content |-> Trim(line.content),
                                                   isContext |-> TRUE] >>])

\* C23 as stated: for every valid pattern P (library-only, library/file and
\* library/file/member), resolving P, parsing the resulting resource path into
\* {library, file, member} and resolving those components again yields the same
\* path structure, up to upper-casing.
C23_RoundTripEveryPattern ==
    call.op = "roundTrip" =>
        /\ ~call.parsed.threw
        /\ call.rebuilt = ToUpperCase(call.path)
        /\ call.resolved = ToUpperCase(call.path)

\* C23 amended: for every valid library/file/member pattern P, resolving P, parsing
\* the resource path with parseMemberPath and resolving the components again, with
\* buildMemberPath or with buildLibraryPath, yields the path of P in upper case, and
\* the components are the segments of P in upper case; for a library-only or a
\* library/file pattern parseMemberPath throws and there is nothing to resolve.
C23_RoundTripMemberPatterns ==
    call.op = "roundTrip" =>
        LET segments == Split(call.pattern, "/")
        IN  IF Len(segments) = 3
            THEN /\ ~call.parsed.threw
                 /\ << call.parsed.library, call.parsed.file, call.parsed.member >>
                        = [k \in 1..3 |-> ToUpperCase(segments[k])]
                 /\ call.parsed.fullPath = call.path
                 /\ call.rebuilt = ToUpperCase(call.path)
                 /\ call.resolved = ToUpperCase(call.path)
            ELSE call.parsed.threw

\* reached: a lower-case pattern with a generic member name made the round trip
C23_Witness ==
    /\ call.op = "roundTrip"
    /\ call.pattern = "mylib/A.LIB/PROD*"
    /\ call.path = "/QSYS.LIB/mylib.LIB/A.LIB.FILE/PROD*.MBR"
    /\ call.rebuilt = "/QSYS.LIB/MYLIB.LIB/A.LIB.FILE/PROD*.MBR"

\* the number of match lines among the lines of these hits
RECURSIVE NumMatchLines(_)
NumMatchLines(hits) ==
    IF hits = <<>> THEN 0
    ELSE Cardinality({ k \in 1..Len(Head(hits).lines) : ~Head(hits).lines[k].isContext })
         + NumMatchLines(Tail(hits))

\* is the caller of the search told that results were truncated: by a field of the
\* SearchResults beyond term, hits, searchOptions, timestamp and searchId, or by a
\* notification that is not the one about failed patterns?
TruncationTold ==
    \/ DOMAIN call.returned # {"term", "hits", "searchOptions", "searchId"}
    \/ \E k \in 1..Len(call.shown) : call.shown[k].kind # "showErrorMessage"

\* C22: when the number of match lines returned for a pattern reaches the match
\* limit passed to the tool, the caller of the multi-pattern search is told that
\* results were truncated, and this is not recorded as a pattern error.
C22_TruncationSurfaced ==
    (/\ call.op = "command"
     /\ call.promise.status = "fulfilled"
     /\ NumMatchLines(call.promise.value) >= MatchLimit)
    => /\ TruncationTold
       /\ call.folded.errors = <<>>

\* FastPfuriousExecutor.hasActiveSearches()
hasActiveSearches == DOMAIN activeSearches # {}

\* C29: the active-search registry tracks exactly the running searches: from its
\* registration until executeSearch returns or throws, the id of a search is in
\* the registry (and hasActiveSearches is true), and once executeSearch has returned
\* or thrown the id is absent, whatever cancelSearch and cancelAllSearches do in
\* between.
C29_RegistryTracksRunning ==
    \A s \in SearchIds :
        /\ pc[s] = "await" => s \in DOMAIN activeSearches /\ hasActiveSearches
        /\ pc[s] \in {"done", "failed"} => s \notin DOMAIN activeSearches

\* C27: the cancel-search command cancels the search that is running when it is
\* issued: after cancelActiveSearch has been called while executeSearch is in flight,
\* the cancellation scopes of that in-flight search are cancelled.
C27_CancelCommandCancelsRunning ==
    (call.op = "cancelActiveSearch" /\ call.running # {})
        => call.scopes \subseteq cancelledTokens

\* every pattern of search s has been counted once: the progress calls count 1, 2, ...
\* up to the number of patterns
CountedOnce(s) ==
    /\ completedCount[s] = Len(patterns[s])
    /\ Len(progress[s]) = Len(patterns[s])
    /\ \A j \in 1..Len(progress[s]) : progress[s][j].completedCount = j

\* C28: executeSearch terminates: when every remote call eventually returns, the
\* batch loop reaches the end of the pattern list and a result is returned after
\* every pattern has been counted once, whatever value is configured for
\* maxParallel.
C28_ExecuteSearchTerminates ==
    \A s \in SearchIds : (pc[s] = "await") ~> (pc[s] = "done" /\ CountedOnce(s))

====
